---- MODULE Spec2Model ----
(***************************************************************************)
(* Contributor handling of the ticket front end: the useContributors       *)
(* directory caches, the MultiContributorField list editor, the merge that *)
(* TicketEditor.handleFormSubmit performs on submit, the payload shaping   *)
(* of ticketService.saveTicket / updateTicket and the display projection   *)
(* getContributorDisplayValue.                                             *)
(*                                                                         *)
(* A JavaScript string is a sequence of one-character strings, so that     *)
(* toLowerCase, trim, join and split are computed, not assumed.            *)
(* A JavaScript object is a function from its present keys to values; a    *)
(* deleted or never-set key is a key outside DOMAIN.                       *)
(***************************************************************************)
EXTENDS Integers, Sequences, FiniteSets, TLC

(***************************************************************************)
(* Bounds of the model                                                     *)
(***************************************************************************)
\* number of onChange calls (additions and removals) explored per editor session
MaxEdits == 2

(***************************************************************************)
(* Strings                                                                 *)
(***************************************************************************)
UpperLetters ==
  <<"A","B","C","D","E","F","G","H","I","J","K","L","M",
    "N","O","P","Q","R","S","T","U","V","W","X","Y","Z">>

LowerLetters ==
  <<"a","b","c","d","e","f","g","h","i","j","k","l","m",
    "n","o","p","q","r","s","t","u","v","w","x","y","z">>

\* the lower-case letter of every upper-case letter
LowerOf ==
  [ A |-> "a", B |-> "b", C |-> "c", D |-> "d", E |-> "e", F |-> "f", G |-> "g",
    H |-> "h", I |-> "i", J |-> "j", K |-> "k", L |-> "l", M |-> "m", N |-> "n",
    O |-> "o", P |-> "p", Q |-> "q", R |-> "r", S |-> "s", T |-> "t", U |-> "u",
    V |-> "v", W |-> "w", X |-> "x", Y |-> "y", Z |-> "z" ]

LowerChar(c) == IF c \in DOMAIN LowerOf THEN LowerOf[c] ELSE c

\* String.prototype.toLowerCase
toLowerCase(s) == [i \in 1..Len(s) |-> LowerChar(s[i])]

RECURSIVE trimStart(_)
trimStart(s) ==
  IF s # <<>> /\ Head(s) = " " THEN trimStart(Tail(s)) ELSE s

RECURSIVE trimEnd(_)
trimEnd(s) ==
  IF s # <<>> /\ s[Len(s)] = " " THEN trimEnd(SubSeq(s, 1, Len(s) - 1)) ELSE s

\* String.prototype.trim
trim(s) == trimEnd(trimStart(s))

\* Array.prototype.join(sep) on an array of strings
RECURSIVE join(_, _)
join(arr, sep) ==
  IF arr = <<>> THEN <<>>
  ELSE IF Len(arr) = 1 THEN arr[1]
  ELSE arr[1] \o sep \o join(Tail(arr), sep)

CommaSpace == <<",", " ">>

Comma == <<",">>

\* s.split(', ')[0]: the text before the first ", "
RECURSIVE splitFirst(_)
splitFirst(s) ==
  IF Len(s) < 2 THEN s
  ELSE IF SubSeq(s, 1, 2) = CommaSpace THEN <<>>
  ELSE <<Head(s)>> \o splitFirst(Tail(s))

Digits == <<"0","1","2","3","4","5","6","7","8","9">>

\* String(n) of a non-negative integer, as Array.prototype.join prints an id
RECURSIVE numberToString(_)
numberToString(n) ==
  IF n < 10 THEN <<Digits[n + 1]>>
  ELSE numberToString(n \div 10) \o <<Digits[(n % 10) + 1]>>

(***************************************************************************)
(* Names that occur in the model                                           *)
(***************************************************************************)
JaneSmith == <<"J","a","n","e"," ","S","m","i","t","h">>
janesmith == <<"j","a","n","e"," ","s","m","i","t","h">>
JSmith    == <<"J","."," ","S","m","i","t","h">>
NewPerson == <<"N","e","w"," ","P","e","r","s","o","n">>
Jane      == <<"J","a","n","e">>
Amit      == <<"A","m","i","t">>
amit      == <<"a","m","i","t">>
Bob       == <<"B","o","b">>
bob       == <<"b","o","b">>

(***************************************************************************)
(* Objects: a function from present keys to values                         *)
(***************************************************************************)
Has(obj, k) == k \in DOMAIN obj

Put(obj, k, v) == [x \in (DOMAIN obj) \cup {k} |-> IF x = k THEN v ELSE obj[x]]

Delete(obj, k) == [x \in (DOMAIN obj) \ {k} |-> obj[x]]

\* a string value and an array value of a field that the code types both ways
StringValue(s) == [type |-> "string", str |-> s]

ArrayValue(a) == [type |-> "array", arr |-> a]

(***************************************************************************)
(* Contributor references and directory entries                            *)
(***************************************************************************)
\* an id that is absent (undefined) is falsy, as is the id 0
NoId == 0

\* a bare name
StringRef(n) == [kind |-> "string", id |-> NoId, name |-> n]

\* a Contributor object: the snapshot of a directory entry
ObjectRef(i, n) == [kind |-> "object", id |-> i, name |-> n]

\* a null entry of a contributors array
NullRef == [kind |-> "null", id |-> NoId, name |-> <<>>]

DirectoryEntry(i, n, a) == [id |-> i, name |-> n, active |-> a]

\* the reference that carries a directory entry
EntryRef(e) == ObjectRef(e.id, e.name)

\* JavaScript truthiness of a string | Contributor value
Truthy(c) == c.kind = "object" \/ c.name # <<>>

(***************************************************************************)
(* The backend's contributor directory                                     *)
(***************************************************************************)
Directory1 ==
  << DirectoryEntry(7, JaneSmith, TRUE),
     DirectoryEntry(9, Amit, FALSE),
     DirectoryEntry(3, Bob, TRUE) >>

DirectoryPool == { Directory1 }

IsActive(e) == e.active

\* GET /api/contributors/active
getActiveContributors(dir) == SelectSeq(dir, IsActive)

\* GET /api/contributors
getAllContributors(dir) == dir

(***************************************************************************)
(* useContributors: one state per component that calls the hook            *)
(***************************************************************************)
HookInstances == {"editor", "field"}

\* state after the mount effect has started loadActiveContributors
HookMounted ==
  [ contributors       |-> <<>>,
    activeContributors |-> <<>>,
    isLoading          |-> TRUE,
    error              |-> FALSE,
    activeFetch        |-> "pending",
    allFetch           |-> "idle" ]

RECURSIVE find_CaseSensitive(_, _)
\* find with the names compared as they are written
find_CaseSensitive(list, n) ==
  IF list = <<>> THEN <<>>
  ELSE IF Head(list).name = n THEN <<Head(list)>>
  ELSE find_CaseSensitive(Tail(list), n)

RECURSIVE find_NameOrEmail(_, _)
\* find that also accepts an entry whose email equals the text
find_NameOrEmail(list, n) ==
  IF list = <<>> THEN <<>>
  ELSE IF \/ toLowerCase(Head(list).name) = toLowerCase(n)
          \/ Has(Head(list), "email") /\ toLowerCase(Head(list).email) = toLowerCase(n)
    THEN <<Head(list)>>
  ELSE find_NameOrEmail(Tail(list), n)

RECURSIVE find(_, _)
\* Array.prototype.find with the predicate name.toLowerCase() === n.toLowerCase();
\* <<>> stands for undefined
find(list, n) ==
  IF list = <<>> THEN <<>>
  ELSE IF toLowerCase(Head(list).name) = toLowerCase(n) THEN <<Head(list)>>
  ELSE find(Tail(list), n)

\* findContributorByName that searches the full list before the active-only list
findContributorByName_FullFirst(h, n) ==
  LET found == find(h.contributors, n)
  IN IF found = <<>> THEN find(h.activeContributors, n) ELSE found

\* findContributorByName that never falls back to the full list
findContributorByName_NoFallback(h, n) == find(h.activeContributors, n)

findContributorByName(h, n) ==
  LET found == find(h.activeContributors, n)
  IN IF found = <<>> /\ Len(h.contributors) > 0
       THEN find(h.contributors, n)
       ELSE found

\* option.label of every dropdown option
getContributorOptions(h) == { h.activeContributors[i].name : i \in DOMAIN h.activeContributors }

(***************************************************************************)
(* MultiContributorField                                                   *)
(***************************************************************************)
maxContributors == 10

\* the value of the dropdown's "Other (Custom)" option
CustomOption == <<"c","u","s","t","o","m">>

fieldContributorName(c) == c.name

fieldContributorId(c) == IF c.kind = "object" THEN c.id ELSE NoId

\* isContributorAlreadyAdded that compares names only
isContributorAlreadyAdded_NameOnly(list, new) ==
  \E i \in DOMAIN list :
    toLowerCase(fieldContributorName(new)) = toLowerCase(fieldContributorName(list[i]))

isContributorAlreadyAdded(list, new) ==
  \E i \in DOMAIN list :
    \/ /\ fieldContributorId(new) # NoId
       /\ fieldContributorId(list[i]) # NoId
       /\ fieldContributorId(new) = fieldContributorId(list[i])
    \/ toLowerCase(fieldContributorName(new)) = toLowerCase(fieldContributorName(list[i]))

\* the contributorToAdd of addContributor; <<>> stands for null
contributorToAdd(h, showCustomInput, customName, selectedValue) ==
  IF showCustomInput /\ trim(customName) # <<>>
    THEN <<StringRef(trim(customName))>>
  ELSE IF selectedValue # <<>> /\ selectedValue # CustomOption
    THEN LET found == findContributorByName(h, selectedValue)
         IN IF found # <<>> THEN <<EntryRef(found[1])>> ELSE <<StringRef(selectedValue)>>
  ELSE <<>>

\* addContributor whose limit test is > instead of >=
addOutcome_OffByOne(list, toAdd) ==
  IF Len(list) > maxContributors THEN "ignoredFull"
  ELSE IF toAdd = <<>> THEN "ignoredEmpty"
  ELSE IF isContributorAlreadyAdded(list, toAdd[1]) THEN "ignoredDuplicate"
  ELSE "added"

\* the outcome of one addContributor call on the list
addOutcome(list, toAdd) ==
  IF Len(list) >= maxContributors THEN "ignoredFull"
  ELSE IF toAdd = <<>> THEN "ignoredEmpty"
  ELSE IF isContributorAlreadyAdded(list, toAdd[1]) THEN "ignoredDuplicate"
  ELSE "added"

removeAt(list, index) ==
  [i \in 1..(Len(list) - 1) |-> IF i < index THEN list[i] ELSE list[i + 1]]

(***************************************************************************)
(* validation.ts helpers                                                   *)
(***************************************************************************)
\* getContributorName(contributor)
getContributorName(c) ==
  IF ~Truthy(c) THEN <<>>
  ELSE IF c.kind = "string" THEN trim(c.name)
  ELSE trim(c.name)

getContributorNameOf(obj) ==
  IF Has(obj, "contributor") THEN getContributorName(obj.contributor) ELSE <<>>

NonEmptyName(n) == n # <<>>

\* getContributorNames without the filter on empty names
getContributorNames_KeepsBlank(list) ==
  [i \in DOMAIN list |-> getContributorName(list[i])]

\* getContributorNames(contributors)
getContributorNames(list) ==
  SelectSeq([i \in DOMAIN list |-> getContributorName(list[i])], NonEmptyName)

\* getContributorNamesString(contributors)
getContributorNamesString(list) == join(getContributorNames(list), CommaSpace)

\* getContributorDisplayValue that tries the contributors array first
getContributorDisplayValue_ArrayFirst(t) ==
  IF Has(t, "contributors") /\ Len(t.contributors) > 0
    THEN getContributorNamesString(t.contributors)
  ELSE IF /\ Has(t, "contributorNames")
          /\ t.contributorNames.type = "string"
          /\ t.contributorNames.str # <<>>
    THEN t.contributorNames.str
  ELSE IF Has(t, "contributor") /\ Truthy(t.contributor)
    THEN getContributorName(t.contributor)
  ELSE <<>>

\* getContributorDisplayValue(ticket)
getContributorDisplayValue(t) ==
  IF /\ Has(t, "contributorNames")
     /\ t.contributorNames.type = "string"
     /\ t.contributorNames.str # <<>>
    THEN t.contributorNames.str
  ELSE IF Has(t, "contributors") /\ Len(t.contributors) > 0
    THEN getContributorNamesString(t.contributors)
  ELSE IF Has(t, "contributor") /\ Truthy(t.contributor)
    THEN getContributorName(t.contributor)
  ELSE <<>>

\* ticketValidationSchema: the caps on the contributor arrays
SchemaMaxContributors == 10

\* the schema with the cap on contributors left out
schemaAccepts_IdsOnly(d) == Len(d.contributorIds) <= SchemaMaxContributors

schemaAccepts(d) ==
  /\ Len(d.contributors) <= SchemaMaxContributors
  /\ Len(d.contributorIds) <= SchemaMaxContributors

(***************************************************************************)
(* TicketEditor                                                            *)
(***************************************************************************)
\* the contributor fields of createDefaultValues(ticket)
createDefaultValues(t) ==
  [ contributor      |-> getContributorNameOf(t),
    contributors     |-> IF Has(t, "contributors") THEN t.contributors
                         ELSE IF Has(t, "contributor") /\ Truthy(t.contributor)
                           THEN <<t.contributor>>
                         ELSE <<>>,
    contributorIds   |-> IF Has(t, "contributorIds") /\ t.contributorIds.type = "array"
                           THEN t.contributorIds.arr ELSE <<>>,
    contributorNames |-> IF Has(t, "contributorNames") /\ t.contributorNames.type = "string"
                           THEN t.contributorNames.str ELSE <<>> ]

EmptyMerge == [objects |-> <<>>, ids |-> <<>>, names |-> <<>>]

\* the loop body that records the typed text of a resolved name
mergeStep_TypedName(h, acc, c) ==
  IF c.kind = "string"
    THEN LET found == findContributorByName(h, c.name)
         IN IF found # <<>>
              THEN [ objects |-> Append(acc.objects, EntryRef(found[1])),
                     ids     |-> Append(acc.ids, found[1].id),
                     names   |-> Append(acc.names, c.name) ]
              ELSE [ objects |-> Append(acc.objects, c),
                     ids     |-> acc.ids,
                     names   |-> Append(acc.names, c.name) ]
  ELSE IF c.kind = "object" /\ c.id # NoId
    THEN [ objects |-> Append(acc.objects, c),
           ids     |-> Append(acc.ids, c.id),
           names   |-> Append(acc.names, c.name) ]
  ELSE acc

\* the loop body that keeps directory contributors only
mergeStep_DropsFreeText(h, acc, c) ==
  IF c.kind = "string"
    THEN LET found == findContributorByName(h, c.name)
         IN IF found # <<>>
              THEN [ objects |-> Append(acc.objects, EntryRef(found[1])),
                     ids     |-> Append(acc.ids, found[1].id),
                     names   |-> Append(acc.names, found[1].name) ]
              ELSE acc
  ELSE IF c.kind = "object" /\ c.id # NoId
    THEN [ objects |-> Append(acc.objects, c),
           ids     |-> Append(acc.ids, c.id),
           names   |-> Append(acc.names, c.name) ]
  ELSE acc

\* the body of data.contributors.forEach in handleFormSubmit
mergeStep(h, acc, c) ==
  IF c.kind = "string"
    THEN LET found == findContributorByName(h, c.name)
         IN IF found # <<>>
              THEN [ objects |-> Append(acc.objects, EntryRef(found[1])),
                     ids     |-> Append(acc.ids, found[1].id),
                     names   |-> Append(acc.names, found[1].name) ]
              ELSE [ objects |-> Append(acc.objects, c),
                     ids     |-> acc.ids,
                     names   |-> Append(acc.names, c.name) ]
  ELSE IF c.kind = "object" /\ c.id # NoId
    THEN [ objects |-> Append(acc.objects, c),
           ids     |-> Append(acc.ids, c.id),
           names   |-> Append(acc.names, c.name) ]
  ELSE acc

RECURSIVE mergeContributors(_, _, _)
mergeContributors(h, list, acc) ==
  IF list = <<>> THEN acc
  ELSE mergeContributors(h, Tail(list), mergeStep(h, acc, Head(list)))

\* ticketData = { ...data, id: ticket.id } with the schema's default for contributorName
formTicketData(id, d) ==
  [ id               |-> id,
    contributor      |-> StringRef(d.contributor),
    contributors     |-> d.contributors,
    contributorIds   |-> ArrayValue(d.contributorIds),
    contributorNames |-> StringValue(d.contributorNames),
    contributorName  |-> <<>> ]

\* the first contributor mirrored into the legacy fields
mirrorFirst(td, m) ==
  IF Len(m.objects) > 0
    THEN LET t1 == Put(td, "contributor", m.objects[1])
             t2 == IF Len(m.ids) > 0 THEN Put(t1, "contributorId", m.ids[1]) ELSE t1
             firstContributorName == splitFirst(t2.contributorNames.str)
         IN IF firstContributorName # <<>>
              THEN Put(t2, "contributorName", firstContributorName)
              ELSE t2
    ELSE td

\* the branch of handleFormSubmit for a non-empty contributors array
submitContributors(h, td, list) ==
  LET m  == mergeContributors(h, list, EmptyMerge)
      t1 == Put(td, "contributors", m.objects)
      t2 == Put(t1, "contributorIds", ArrayValue(m.ids))
      t3 == Put(t2, "contributorNames", StringValue(join(m.names, CommaSpace)))
  IN mirrorFirst(t3, m)

\* the legacy branch that leaves contributorName as the form had it
submitLegacy_NameNotMirrored(h, td, name) ==
  IF name = <<>> THEN td
  ELSE LET found == findContributorByName(h, name)
       IN IF found # <<>>
            THEN [ td EXCEPT !.contributor = EntryRef(found[1]),
                             !.contributors = <<EntryRef(found[1])>>,
                             !.contributorIds = ArrayValue(<<found[1].id>>),
                             !.contributorNames = StringValue(found[1].name) ]
                 @@ [contributorId |-> found[1].id]
            ELSE Delete([ td EXCEPT !.contributor = StringRef(name),
                                    !.contributors = <<StringRef(name)>>,
                                    !.contributorNames = StringValue(name) ],
                        "contributorId")

\* the branch of handleFormSubmit for the legacy single contributor string
submitLegacy(h, td, name) ==
  IF name = <<>> THEN td
  ELSE LET found == findContributorByName(h, name)
       IN IF found # <<>>
            THEN [ td EXCEPT !.contributor = EntryRef(found[1]),
                             !.contributorName = found[1].name,
                             !.contributors = <<EntryRef(found[1])>>,
                             !.contributorIds = ArrayValue(<<found[1].id>>),
                             !.contributorNames = StringValue(found[1].name) ]
                 @@ [contributorId |-> found[1].id]
            ELSE Delete([ td EXCEPT !.contributor = StringRef(name),
                                    !.contributorName = name,
                                    !.contributors = <<StringRef(name)>>,
                                    !.contributorNames = StringValue(name) ],
                        "contributorId")

\* the ticketData that handleFormSubmit hands to onSave
handleFormSubmit(h, id, d) ==
  IF Len(d.contributors) > 0
    THEN submitContributors(h, formTicketData(id, d), d.contributors)
    ELSE submitLegacy(h, formTicketData(id, d), d.contributor)

(***************************************************************************)
(* ticketService                                                           *)
(***************************************************************************)
HasId(c) == c.kind = "object" /\ c.id # NoId

\* ticketService.updateTicket: the body of PUT /api/tickets/{id}/edit-json
updateTicket(id, t) ==
  LET td == Put(t, "id", id)
  IN IF Has(t, "contributors") /\ Len(t.contributors) > 0
       THEN LET withId == SelectSeq(t.contributors, HasId)
                contributorIds == [i \in DOMAIN withId |-> withId[i].id]
                t1 == IF Len(contributorIds) > 0
                        THEN Put(Put(td, "contributorIdsList", contributorIds),
                                 "contributorIds",
                                 StringValue(join([i \in DOMAIN contributorIds |->
                                                     numberToString(contributorIds[i])],
                                                  Comma)))
                        ELSE td
                firstContributor == t.contributors[1]
                t2 == IF firstContributor.kind = "object" /\ firstContributor.id # NoId
                        THEN Put(t1, "contributorId", firstContributor.id) ELSE t1
                t3 == IF firstContributor.kind = "object" /\ firstContributor.name # <<>>
                        THEN Put(t2, "contributorName", firstContributor.name) ELSE t2
            IN Delete(Delete(t3, "contributors"), "contributor")
     ELSE IF Has(t, "contributor") /\ Truthy(t.contributor)
       THEN IF t.contributor.kind = "string"
              THEN Delete(Put(td, "contributorName", t.contributor.name), "contributor")
              ELSE LET t1 == IF t.contributor.id # NoId
                               THEN Put(td, "contributorId", t.contributor.id) ELSE td
                       t2 == IF t.contributor.name # <<>>
                               THEN Put(t1, "contributorName", t.contributor.name) ELSE t1
                   IN Delete(t2, "contributor")
     ELSE Delete(Delete(Delete(Delete(td, "contributors"), "contributor"),
                        "contributorIds"), "contributorNames")

\* x || [] for a string-or-array field
orEmptyArray(t, k) ==
  IF Has(t, k) /\ ~(t[k].type = "string" /\ t[k].str = <<>>) THEN t[k] ELSE ArrayValue(<<>>)

\* ticketService.saveTicket: the body of POST /api/tickets
saveTicket(t) ==
  IF Has(t, "contributors") /\ Len(t.contributors) > 0
    THEN LET t1 == Put(Put(t, "contributorIds", orEmptyArray(t, "contributorIds")),
                       "contributorNames", orEmptyArray(t, "contributorNames"))
             firstContributor == t.contributors[1]
         IN IF firstContributor.kind = "string"
              THEN Put(Put(t1, "contributor", firstContributor),
                       "contributorName", firstContributor.name)
              ELSE LET t2 == Put(Put(t1, "contributor", firstContributor),
                                 "contributorName", firstContributor.name)
                   IN IF firstContributor.id # NoId
                        THEN Put(t2, "contributorId", firstContributor.id)
                        ELSE Delete(t2, "contributorId")
    ELSE LET t1 == IF Has(t, "contributor") /\ t.contributor.kind = "string"
                     THEN Put(t, "contributorName", t.contributor.name)
                   ELSE IF Has(t, "contributor") /\ t.contributor.id # NoId
                     THEN Put(t, "contributorId", t.contributor.id)
                   ELSE t
         IN t1

(***************************************************************************)
(* Tickets that the backend hands to the editor                            *)
(***************************************************************************)
\* n pairwise distinct references, free text at odd and directory snapshots at even places
DistinctRefs(n) ==
  [i \in 1..n |-> IF i % 2 = 1 THEN StringRef(<<LowerLetters[i]>>)
                  ELSE ObjectRef(20 + i, <<UpperLetters[i + 11]>>)]

EditorTickets ==
  { [id |-> 1],
    [id |-> 1, contributors |-> <<>>, contributor |-> ObjectRef(3, Bob)],
    [id |-> 1, contributor |-> StringRef(NewPerson)],
    [id |-> 1, contributors |-> <<StringRef(janesmith), StringRef(NewPerson)>>],
    [id |-> 1, contributors |-> <<StringRef(NewPerson), ObjectRef(7, JaneSmith)>>],
    [id |-> 1, contributors |-> <<ObjectRef(7, JSmith)>>],
    [id |-> 1, contributors |-> <<StringRef(amit), StringRef(bob)>>],
    [id |-> 1, contributors |-> <<ObjectRef(7, JaneSmith), StringRef(janesmith)>>],
    [id |-> 1, contributors |-> DistinctRefs(9)],
    [id |-> 1, contributors |-> DistinctRefs(11)],
    [contributors |-> <<StringRef(NewPerson)>>] }

\* texts typed into the custom-name input
CustomTexts == { NewPerson, JaneSmith, <<" ">> }

(***************************************************************************)
(* State                                                                   *)
(***************************************************************************)
VARIABLES
  ticket,          \* the ticket the editor was opened on / the service is called with
  directory,       \* the backend's contributor directory
  hook,            \* useContributors state of the editor and of the field
  contributors,    \* the form's contributors list (field.value)
  onChangeCalls,   \* number of onChange calls made by the field
  lastOp,          \* outcome of the last handler that ran
  phase,           \* "editing", "submitted", "sent" or "service"
  mergeInput,      \* the list and the directory caches that the last submit read
  payload,         \* the ticketData handed to onSave
  endpoint,        \* the request the service built last
  body,            \* the body of that request
  display,         \* the last value of getContributorDisplayValue
  lookup,          \* the last findContributorByName call: its argument, caches and outcome
  projectsHook,    \* useProjects state
  retry,           \* the getAllTickets call in progress: attempts made, delays waited
  ticketHook,      \* useTicket state
  currentView      \* App's currentView

\* the state of the hooks and of App outside the contributor editor
appVars == << projectsHook, retry, ticketHook, currentView >>

\* the state of the contributor editor, its hook instances and the service calls
editorVars == << ticket, directory, hook, contributors, onChangeCalls, lastOp, phase,
                 mergeInput, payload, endpoint, body, display, lookup >>

vars == << editorVars, appVars >>

None == <<>>

\* the hooks outside the contributor editor are not mounted
AppIdle ==
  /\ projectsHook = None
  /\ retry = None
  /\ ticketHook = None
  /\ currentView = "none"

Init ==
  /\ ticket \in EditorTickets
  /\ directory \in DirectoryPool
  /\ hook = [inst \in HookInstances |-> HookMounted]
  /\ contributors = createDefaultValues(ticket).contributors
  /\ onChangeCalls = 0
  /\ lastOp = "mounted"
  /\ phase = "editing"
  /\ mergeInput = None
  /\ payload = None
  /\ endpoint = "none"
  /\ body = None
  /\ display = None
  /\ lookup = None
  /\ AppIdle

(***************************************************************************)
(* useContributors: the fetch started on mount settles                     *)
(***************************************************************************)
LoadActiveContributorsResolve(inst) ==
  /\ hook[inst].activeFetch = "pending"
  /\ hook' = [hook EXCEPT ![inst].activeContributors = getActiveContributors(directory),
                          ![inst].isLoading = FALSE,
                          ![inst].activeFetch = "done"]
  /\ UNCHANGED << ticket, directory, contributors, onChangeCalls, lastOp, phase,
                  mergeInput, payload, endpoint, body, display, lookup, appVars >>

LoadActiveContributorsReject(inst) ==
  /\ hook[inst].activeFetch = "pending"
  /\ hook' = [hook EXCEPT ![inst].error = TRUE,
                          ![inst].isLoading = FALSE,
                          ![inst].activeFetch = "failed"]
  /\ UNCHANGED << ticket, directory, contributors, onChangeCalls, lastOp, phase,
                  mergeInput, payload, endpoint, body, display, lookup, appVars >>

(***************************************************************************)
(* MultiContributorField handlers                                          *)
(***************************************************************************)
\* addContributor with the given input state of the field; the handler is
\* modelled for every list, also one on which the add controls are not rendered
addContributor(showCustomInput, customName, selectedValue) ==
  LET toAdd   == contributorToAdd(hook["field"], showCustomInput, customName, selectedValue)
      outcome == addOutcome(contributors, toAdd)
  IN /\ phase = "editing"
     /\ lastOp' = outcome
     /\ IF outcome = "added"
          THEN /\ onChangeCalls < MaxEdits
               /\ contributors' = Append(contributors, toAdd[1])
               /\ onChangeCalls' = onChangeCalls + 1
          ELSE UNCHANGED << contributors, onChangeCalls >>
     /\ UNCHANGED << ticket, directory, hook, phase, mergeInput, payload, endpoint,
                     body, display, lookup, appVars >>

AddCustomContributor ==
  \E text \in CustomTexts : addContributor(TRUE, text, CustomOption)

AddSelectedContributor ==
  \E label \in getContributorOptions(hook["field"]) : addContributor(FALSE, <<>>, label)

removeContributor ==
  \E index \in DOMAIN contributors :
    /\ phase = "editing"
    /\ onChangeCalls < MaxEdits
    /\ contributors' = removeAt(contributors, index)
    /\ onChangeCalls' = onChangeCalls + 1
    /\ lastOp' = "removed"
    /\ UNCHANGED << ticket, directory, hook, phase, mergeInput, payload, endpoint,
                    body, display, lookup, appVars >>

(***************************************************************************)
(* TicketEditor: submit                                                    *)
(***************************************************************************)
formData == [createDefaultValues(ticket) EXCEPT !.contributors = contributors]

Submit ==
  /\ phase = "editing"
  /\ IF ~schemaAccepts(formData)
       THEN /\ lastOp' = "invalid"
            /\ UNCHANGED << phase, mergeInput, payload >>
     ELSE IF ~Has(ticket, "id")
       THEN /\ lastOp' = "submitFailed"
            /\ UNCHANGED << phase, mergeInput, payload >>
     ELSE /\ lastOp' = "submitted"
          /\ phase' = "submitted"
          /\ mergeInput' = [ contributors |-> contributors, hook |-> hook["editor"] ]
          /\ payload' = handleFormSubmit(hook["editor"], ticket.id, formData)
  /\ UNCHANGED << ticket, directory, hook, contributors, onChangeCalls, endpoint,
                  body, display, lookup, appVars >>

\* App.handleSaveTicket -> useTicket.updateTicket -> ticketService.updateTicket
UpdateTicket ==
  /\ phase = "submitted"
  /\ phase' = "sent"
  /\ lastOp' = "sent"
  /\ endpoint' = "edit-json"
  /\ body' = updateTicket(payload.id, payload)
  /\ UNCHANGED << ticket, directory, hook, contributors, onChangeCalls, mergeInput,
                  payload, display, lookup, appVars >>

Next ==
  \/ \E inst \in HookInstances : LoadActiveContributorsResolve(inst)
  \/ \E inst \in HookInstances : LoadActiveContributorsReject(inst)
  \/ AddCustomContributor
  \/ AddSelectedContributor
  \/ removeContributor
  \/ Submit
  \/ UpdateTicket

Spec == Init /\ [][Next]_vars

TypeOK ==
  /\ phase \in {"editing", "submitted", "sent", "service", "created", "displayed", "hook",
                "projects", "tickets", "app"}
  /\ onChangeCalls \in 0..MaxEdits

(***************************************************************************)
(* The service functions and the display projection called directly        *)
(***************************************************************************)
AB == <<"A", ",", " ", "B">>

NameC == <<"C">>

NameD == <<"D">>

Padded == <<" ", "C", " ">>

AllSet ==
  [ id |-> 1,
    contributorNames |-> StringValue(AB),
    contributors |-> <<ObjectRef(NoId, NameC)>>,
    contributor |-> StringRef(NameD) ]

LegacyOnly == [ id |-> 1, contributor |-> ObjectRef(3, Bob) ]

ServiceContributorNames ==
  { None, <<StringValue(<<>>)>>, <<StringValue(AB)>>, <<ArrayValue(<<>>)>>,
    <<ArrayValue(<<NameC, NameD>>)>> }

ServiceContributors ==
  { None, << <<>> >>,
    << <<ObjectRef(NoId, NameC)>> >>,
    << <<ObjectRef(7, Jane), ObjectRef(9, Amit)>> >>,
    << <<StringRef(NewPerson), ObjectRef(7, JaneSmith)>> >>,
    << <<StringRef(Padded), ObjectRef(7, JaneSmith)>> >>,
    << <<StringRef(NameD), ObjectRef(5, <<>>), StringRef(NewPerson)>> >> }

ServiceContributor ==
  { None, <<StringRef(<<>>)>>, <<StringRef(NameD)>>, <<ObjectRef(3, Bob)>> }

\* a ticket with the given optional fields; <<>> leaves the key out
MakeTicket(names, list, single) ==
  LET t0 == [id |-> 1]
      t1 == IF names # None THEN Put(t0, "contributorNames", names[1]) ELSE t0
      t2 == IF list # None THEN Put(t1, "contributors", list[1]) ELSE t1
  IN IF single # None THEN Put(t2, "contributor", single[1]) ELSE t2

ServiceTickets ==
  { MakeTicket(n, l, c) : n \in ServiceContributorNames,
                          l \in ServiceContributors,
                          c \in ServiceContributor }

InitService ==
  /\ ticket \in ServiceTickets
  /\ directory \in DirectoryPool
  /\ hook = [inst \in HookInstances |-> HookMounted]
  /\ contributors = <<>>
  /\ onChangeCalls = 0
  /\ lastOp = "none"
  /\ phase = "service"
  /\ mergeInput = None
  /\ payload = None
  /\ endpoint = "none"
  /\ body = None
  /\ display = None
  /\ lookup = None
  /\ AppIdle

CallUpdateTicket ==
  /\ phase = "service"
  /\ endpoint' = "edit-json"
  /\ body' = updateTicket(ticket.id, ticket)
  /\ lastOp' = "sent"
  /\ UNCHANGED << ticket, directory, hook, contributors, onChangeCalls, phase,
                  mergeInput, payload, display, lookup, appVars >>

CallSaveTicket ==
  /\ phase = "service"
  /\ endpoint' = "tickets"
  /\ body' = saveTicket(ticket)
  /\ lastOp' = "sent"
  /\ UNCHANGED << ticket, directory, hook, contributors, onChangeCalls, phase,
                  mergeInput, payload, display, lookup, appVars >>

CallDisplayValue ==
  /\ phase = "service"
  /\ display' = getContributorDisplayValue(ticket)
  /\ lastOp' = "displayed"
  /\ UNCHANGED << ticket, directory, hook, contributors, onChangeCalls, phase,
                  mergeInput, payload, endpoint, body, lookup, appVars >>

\* a string is truthy unless it is empty; an array is always truthy
TruthyValue(v) == v.type = "array" \/ v.str # <<>>

\* TicketsTable: ticket.contributorNames || getContributorDisplayValue(ticket)
contributorText(t) ==
  IF Has(t, "contributorNames") /\ TruthyValue(t.contributorNames)
    THEN t.contributorNames
    ELSE StringValue(getContributorDisplayValue(t))

\* the search filter's (... || '').toLowerCase().includes(searchTermLower)
searchContributorText(t) ==
  LET v == contributorText(t)
  IN IF v.type = "string"
       THEN [kind |-> "ok", text |-> toLowerCase(v.str)]
       ELSE [kind |-> "threw"]

\* the sort comparator's value: lower-cased when it is a string
sortContributorText(t) ==
  LET v == contributorText(t)
  IN IF v.type = "string" THEN StringValue(toLowerCase(v.str)) ELSE v

\* TicketsTable computes the contributor text of a ticket for the search
\* filter, the sort comparator and the Excel export
CallTableContributorText ==
  /\ phase = "service"
  /\ display' = [ search |-> searchContributorText(ticket),
                  sort   |-> sortContributorText(ticket),
                  export |-> contributorText(ticket) ]
  /\ lastOp' = "tableText"
  /\ UNCHANGED << ticket, directory, hook, contributors, onChangeCalls, phase,
                  mergeInput, payload, endpoint, body, lookup, appVars >>

NextService ==
  \/ CallUpdateTicket
  \/ CallSaveTicket
  \/ CallDisplayValue
  \/ CallTableContributorText

SpecService == InitService /\ [][NextService]_vars

(***************************************************************************)
(* The editor opened on a ticket the backend sent, submitted as it is, and *)
(* its payload taken through the create path and the display projection    *)
(***************************************************************************)
RoundTripLists ==
  { <<ObjectRef(NoId, NameC), StringRef(NewPerson)>>,
    <<StringRef(NewPerson), ObjectRef(NoId, NameC), ObjectRef(7, JaneSmith)>>,
    <<NullRef, StringRef(janesmith)>>,
    <<ObjectRef(NoId, <<>>)>>,
    <<ObjectRef(NoId, NameC)>>,
    <<StringRef(janesmith), StringRef(NewPerson)>>,
    <<StringRef(NewPerson), ObjectRef(7, JaneSmith)>>,
    <<ObjectRef(3, Bob), StringRef(amit)>>,
    <<StringRef(bob), ObjectRef(9, Amit), StringRef(NameD)>>,
    <<ObjectRef(7, JSmith)>> }

RoundTripTickets == { [id |-> 1, contributors |-> l] : l \in RoundTripLists }

InitRoundTrip ==
  /\ ticket \in RoundTripTickets
  /\ directory \in DirectoryPool
  /\ hook = [inst \in HookInstances |-> HookMounted]
  /\ contributors = createDefaultValues(ticket).contributors
  /\ onChangeCalls = 0
  /\ lastOp = "mounted"
  /\ phase = "editing"
  /\ mergeInput = None
  /\ payload = None
  /\ endpoint = "none"
  /\ body = None
  /\ display = None
  /\ lookup = None
  /\ AppIdle

\* ticketService.saveTicket called with the payload of the submit
CreateTicket ==
  /\ phase = "submitted"
  /\ phase' = "created"
  /\ lastOp' = "sent"
  /\ endpoint' = "tickets"
  /\ body' = saveTicket(payload)
  /\ UNCHANGED << ticket, directory, hook, contributors, onChangeCalls, mergeInput,
                  payload, display, lookup, appVars >>

\* getContributorDisplayValue called with the body of the create request
DisplayCreated ==
  /\ phase = "created"
  /\ phase' = "displayed"
  /\ lastOp' = "displayed"
  /\ display' = getContributorDisplayValue(body)
  /\ UNCHANGED << ticket, directory, hook, contributors, onChangeCalls, mergeInput,
                  payload, endpoint, body, lookup, appVars >>

NextRoundTrip ==
  \/ LoadActiveContributorsResolve("editor")
  \/ LoadActiveContributorsReject("editor")
  \/ Submit
  \/ CreateTicket
  \/ DisplayCreated

SpecRoundTrip == InitRoundTrip /\ [][NextRoundTrip]_vars

(***************************************************************************)
(* useContributors on its own: both fetches and name resolution, called    *)
(* by a component in any order                                             *)
(***************************************************************************)
JaneMail == <<"j", "@", "x">>

WithEmail(e, m) == [id |-> e.id, name |-> e.name, active |-> e.active, email |-> m]

\* names that differ in case only, in both lists
DirectoryCases ==
  << DirectoryEntry(8, janesmith, FALSE),
     WithEmail(DirectoryEntry(7, JaneSmith, TRUE), JaneMail),
     DirectoryEntry(10, janesmith, TRUE),
     DirectoryEntry(9, Amit, FALSE),
     DirectoryEntry(12, amit, FALSE) >>

\* entries whose name is empty or blank
DirectoryBlank ==
  << DirectoryEntry(5, <<>>, TRUE),
     DirectoryEntry(6, <<" ">>, FALSE),
     DirectoryEntry(3, Bob, TRUE) >>

\* an entry that has no name
DirectoryNameless ==
  << DirectoryEntry(3, Bob, TRUE),
     [id |-> 4, active |-> TRUE] >>

HookDirectories == { Directory1, DirectoryCases, DirectoryBlank, DirectoryNameless }

LookupNames == { JaneSmith, janesmith, Jane, Amit, amit, bob, NewPerson, JaneMail, <<>>, <<" ">> }

RECURSIVE findThrows(_, _)
\* Array.prototype.find reaches an entry whose name has no toLowerCase
findThrows(list, n) ==
  IF list = <<>> THEN FALSE
  ELSE IF ~Has(Head(list), "name") THEN TRUE
  ELSE IF toLowerCase(Head(list).name) = toLowerCase(n) THEN FALSE
  ELSE findThrows(Tail(list), n)

\* findContributorByName raises a TypeError
findContributorByNameThrows(h, n) ==
  \/ findThrows(h.activeContributors, n)
  \/ /\ find(h.activeContributors, n) = <<>>
     /\ Len(h.contributors) > 0
     /\ findThrows(h.contributors, n)

\* what a findContributorByName(n) call on the hook state h gives its caller
resolveName(h, n) ==
  IF findContributorByNameThrows(h, n)
    THEN [name |-> n, hook |-> h, outcome |-> "threw", entry |-> <<>>]
    ELSE LET found == findContributorByName(h, n)
         IN [ name    |-> n,
              hook    |-> h,
              outcome |-> IF found = <<>> THEN "notFound" ELSE "found",
              entry   |-> found ]

InitHook ==
  /\ ticket = [id |-> 1]
  /\ directory \in HookDirectories
  /\ hook = [inst \in HookInstances |-> HookMounted]
  /\ contributors = <<>>
  /\ onChangeCalls = 0
  /\ lastOp = "mounted"
  /\ phase = "hook"
  /\ mergeInput = None
  /\ payload = None
  /\ endpoint = "none"
  /\ body = None
  /\ display = None
  /\ lookup = None
  /\ AppIdle

\* loadActiveContributors called again, one request in flight at a time
LoadActiveContributors(inst) ==
  /\ hook[inst].activeFetch # "pending"
  /\ hook' = [hook EXCEPT ![inst].isLoading = TRUE,
                          ![inst].error = FALSE,
                          ![inst].activeFetch = "pending"]
  /\ UNCHANGED << ticket, directory, contributors, onChangeCalls, lastOp, phase,
                  mergeInput, payload, endpoint, body, display, lookup, appVars >>

\* loadContributors called, one request in flight at a time
LoadContributors(inst) ==
  /\ hook[inst].allFetch # "pending"
  /\ hook' = [hook EXCEPT ![inst].isLoading = TRUE,
                          ![inst].error = FALSE,
                          ![inst].allFetch = "pending"]
  /\ UNCHANGED << ticket, directory, contributors, onChangeCalls, lastOp, phase,
                  mergeInput, payload, endpoint, body, display, lookup, appVars >>

LoadContributorsResolve(inst) ==
  /\ hook[inst].allFetch = "pending"
  /\ hook' = [hook EXCEPT ![inst].contributors = getAllContributors(directory),
                          ![inst].isLoading = FALSE,
                          ![inst].allFetch = "done"]
  /\ UNCHANGED << ticket, directory, contributors, onChangeCalls, lastOp, phase,
                  mergeInput, payload, endpoint, body, display, lookup, appVars >>

LoadContributorsReject(inst) ==
  /\ hook[inst].allFetch = "pending"
  /\ hook' = [hook EXCEPT ![inst].error = TRUE,
                          ![inst].isLoading = FALSE,
                          ![inst].allFetch = "failed"]
  /\ UNCHANGED << ticket, directory, contributors, onChangeCalls, lastOp, phase,
                  mergeInput, payload, endpoint, body, display, lookup, appVars >>

\* refresh: both loads started together
Refresh(inst) ==
  /\ hook[inst].activeFetch # "pending"
  /\ hook[inst].allFetch # "pending"
  /\ hook' = [hook EXCEPT ![inst].isLoading = TRUE,
                          ![inst].error = FALSE,
                          ![inst].activeFetch = "pending",
                          ![inst].allFetch = "pending"]
  /\ UNCHANGED << ticket, directory, contributors, onChangeCalls, lastOp, phase,
                  mergeInput, payload, endpoint, body, display, lookup, appVars >>

\* a component calls findContributorByName(n) during some render
ResolveName(inst) ==
  \E n \in LookupNames :
    /\ lookup' = resolveName(hook[inst], n)
    /\ lastOp' = "resolved"
    /\ UNCHANGED << ticket, directory, hook, contributors, onChangeCalls, phase,
                    mergeInput, payload, endpoint, body, display, appVars >>

NextHook ==
  \/ LoadActiveContributorsResolve("field")
  \/ LoadActiveContributorsReject("field")
  \/ LoadActiveContributors("field")
  \/ LoadContributors("field")
  \/ LoadContributorsResolve("field")
  \/ LoadContributorsReject("field")
  \/ Refresh("field")
  \/ ResolveName("field")

SpecHook == InitHook /\ [][NextHook]_vars

(***************************************************************************)
(* Project names: ticketService.getProjectNames and useProjects            *)
(***************************************************************************)
FALLBACK_PROJECT_NAMES ==
  << <<"M","a","t","e","r","i","a","l"," ","r","e","c","i","e","p","t">>,
     <<"M","y"," ","b","u","d","d","y">>,
     <<"C","K","_","A","l","u","m","n","i">>,
     <<"H","E","P","L","_","A","l","u","m","n","i">>,
     <<"M","M","W"," ","M","o","d","u","l","e","(","T","i","c","k","e","t"," ","t","o","o","l",")">>,
     <<"C","K"," ","T","r","e","n","d","s">>,
     <<"L","i","v","e","w","i","r","e">>,
     <<"M","e","e","t","i","n","g"," ","a","g","e","n","d","a">>,
     <<"P","r","o"," ","H","i","r","e">>,
     <<"E","-","C","a","p","e","x">>,
     <<"S","O","P">>,
     <<"A","s","s","e","r","t"," ","M","a","n","a","g","e","m","e","n","t">>,
     <<"M","o","u","l","d"," ","M","a","m","p">> >>

MaxFetches == 2

\* UTF-16 code unit of the characters that project names of tickets are made of
CharCode(c) ==
  IF c = " " THEN 32
  ELSE IF \E i \in DOMAIN UpperLetters : UpperLetters[i] = c
    THEN 64 + (CHOOSE i \in DOMAIN UpperLetters : UpperLetters[i] = c)
  ELSE 96 + (CHOOSE i \in DOMAIN LowerLetters : LowerLetters[i] = c)

RECURSIVE StringLess(_, _)
\* a < b in the order of Array.prototype.sort without a comparator
StringLess(a, b) ==
  IF b = <<>> THEN FALSE
  ELSE IF a = <<>> THEN TRUE
  ELSE IF CharCode(Head(a)) # CharCode(Head(b)) THEN CharCode(Head(a)) < CharCode(Head(b))
  ELSE StringLess(Tail(a), Tail(b))

RECURSIVE sortStrings(_)
\* Array.from(new Set(...)).sort()
sortStrings(S) ==
  IF S = {} THEN <<>>
  ELSE LET least == CHOOSE x \in S : \A y \in S \ {x} : StringLess(x, y)
       IN <<least>> \o sortStrings(S \ {least})

NonBlank(project) == trim(project) # <<>>

\* answers of GET /api/projects: an array, data that is no array, or an error
ProjectsAnswers ==
  { [kind |-> "array", items |-> << <<"B">>, <<"A">> >>],
    [kind |-> "array", items |-> << <<"A">>, <<>>, <<" ">>, <<"A">> >>],
    [kind |-> "array", items |-> <<>>],
    [kind |-> "array", items |-> FALLBACK_PROJECT_NAMES],
    [kind |-> "other"],
    [kind |-> "error"] }

\* outcomes of getAllTickets: the project field of every ticket, or an error
TicketsAnswers ==
  { [kind |-> "ok", projects |-> << <<"b">>, <<"B">>, <<"A", "b">>, <<"B">>, <<>>, <<"A">> >>],
    [kind |-> "ok", projects |-> << <<" ">>, <<"C">> >>],
    [kind |-> "ok", projects |-> <<>>],
    [kind |-> "error"] }

\* getProjectNames that gives up when the projects endpoint fails
getProjectNames_NoTicketFallback(pa, ta) ==
  IF pa.kind = "array"
    THEN [kind |-> "ok", from |-> "endpoint", list |-> SelectSeq(pa.items, NonBlank)]
    ELSE [kind |-> "threw"]

\* ticketService.getProjectNames for the two answers of the backend
getProjectNames(pa, ta) ==
  IF pa.kind = "array"
    THEN [kind |-> "ok", from |-> "endpoint", list |-> SelectSeq(pa.items, NonBlank)]
  ELSE IF ta.kind = "ok"
    THEN [ kind |-> "ok", from |-> "tickets",
           list |-> sortStrings({ ta.projects[i] : i \in { j \in DOMAIN ta.projects :
                                                            NonBlank(ta.projects[j]) } }) ]
  ELSE [kind |-> "threw"]

\* useProjects after its mount effect has started fetchProjects
ProjectsMounted ==
  [ projects        |-> FALLBACK_PROJECT_NAMES,
    isLoading       |-> TRUE,
    error           |-> FALSE,
    isUsingFallback |-> TRUE,
    inFlight        |-> 1,
    from            |-> "constants",
    answers         |-> None ]

InitProjects ==
  /\ ticket = [id |-> 1]
  /\ directory \in DirectoryPool
  /\ hook = [inst \in HookInstances |-> HookMounted]
  /\ contributors = <<>>
  /\ onChangeCalls = 0
  /\ lastOp = "mounted"
  /\ phase = "projects"
  /\ mergeInput = None
  /\ payload = None
  /\ endpoint = "none"
  /\ body = None
  /\ display = None
  /\ lookup = None
  /\ projectsHook = ProjectsMounted
  /\ retry = None
  /\ ticketHook = None
  /\ currentView = "none"

\* refetch: fetchProjects called again
Refetch ==
  /\ projectsHook.inFlight < MaxFetches
  /\ projectsHook' = [projectsHook EXCEPT !.isLoading = TRUE,
                                          !.error = FALSE,
                                          !.inFlight = @ + 1]
  /\ lastOp' = "refetch"
  /\ UNCHANGED << ticket, directory, hook, contributors, onChangeCalls, phase, mergeInput,
                  payload, endpoint, body, display, lookup, retry, ticketHook, currentView >>

\* a fetchProjects call settles with what getProjectNames gave or threw
FetchProjectsSettle ==
  \E pa \in ProjectsAnswers, ta \in TicketsAnswers :
    LET r == getProjectNames(pa, ta)
    IN /\ projectsHook.inFlight > 0
       /\ projectsHook' =
            IF r.kind = "ok"
              THEN [projectsHook EXCEPT !.projects = r.list,
                                        !.isUsingFallback = FALSE,
                                        !.isLoading = FALSE,
                                        !.inFlight = @ - 1,
                                        !.from = r.from,
                                        !.answers = [projects |-> pa, tickets |-> ta]]
              ELSE [projectsHook EXCEPT !.projects = FALLBACK_PROJECT_NAMES,
                                        !.isUsingFallback = TRUE,
                                        !.error = TRUE,
                                        !.isLoading = FALSE,
                                        !.inFlight = @ - 1,
                                        !.from = "constants",
                                        !.answers = [projects |-> pa, tickets |-> ta]]
       /\ lastOp' = "projectsSettled"
       /\ UNCHANGED << ticket, directory, hook, contributors, onChangeCalls, phase,
                       mergeInput, payload, endpoint, body, display, lookup, retry,
                       ticketHook, currentView >>

NextProjects ==
  \/ Refetch
  \/ FetchProjectsSettle

SpecProjects == InitProjects /\ [][NextProjects]_vars

(***************************************************************************)
(* ticketService.getAllTickets with retryRequest behind the API client      *)
(***************************************************************************)
maxRetries == 3

InitialDelay == 1000

RetryCodes == {"ERR_INCOMPLETE_CHUNKED_ENCODING", "ERR_NETWORK", "ECONNREFUSED"}

\* what one GET /api/tickets can end with: data, or an axios error
AttemptOutcomes ==
  { [kind |-> "data"],
    [kind |-> "noArray"],
    [kind |-> "error", code |-> "ERR_NETWORK"],
    [kind |-> "error", code |-> "ECONNREFUSED"],
    [kind |-> "error", code |-> "ERR_INCOMPLETE_CHUNKED_ENCODING"],
    [kind |-> "error", code |-> "ERR_BAD_RESPONSE", status |-> 500] }

\* the response interceptor's rejection: an ApiError of message, status, details
interceptResponseError(error) ==
  [ message |-> IF error.code \in {"ECONNREFUSED", "ERR_NETWORK"} THEN "unable to connect"
                ELSE IF error.code = "ERR_INCOMPLETE_CHUNKED_ENCODING" THEN "incomplete"
                ELSE "message",
    status  |-> IF Has(error, "status") THEN error.status ELSE 500 ]

\* a response interceptor that passes the axios error on as it is
interceptResponseError_KeepsCode(error) == error

\* retryRequest after requestFn has thrown: "wait" before the next attempt or "throw"
afterFailure(i, error) ==
  IF i = maxRetries - 1 THEN "throw"
  ELSE IF Has(error, "code") /\ error.code \in RetryCodes THEN "wait"
  ELSE "throw"

RetryIdle ==
  [status |-> "idle", i |-> 0, delay |-> InitialDelay, attempts |-> 0, waited |-> <<>>,
   codes |-> <<>>]

RetryStarted == [RetryIdle EXCEPT !.status = "running"]

(***************************************************************************)
(* useTicket: allTickets under load, save, update and delete                *)
(***************************************************************************)
MaxInFlight == 2

TicketIds == {1, 2}

Stored(i) == [id |-> i, rev |-> "old"]

Written(i) == [id |-> i, rev |-> "new"]

\* lists that GET /api/tickets answers with
ServerLists == { <<>>, <<Stored(1)>>, <<Stored(1), Stored(2)>>, <<Stored(2), Written(1)>> }

\* saveTicket's updater that always appends
replaceOrAppend_Appends(prev, savedTicket) == Append(prev, savedTicket)

\* the updater of saveTicket: replace at findIndex, else append
replaceOrAppend(prev, savedTicket) ==
  IF \E i \in DOMAIN prev : prev[i].id = savedTicket.id
    THEN LET existingIndex == CHOOSE i \in DOMAIN prev :
                                /\ prev[i].id = savedTicket.id
                                /\ \A j \in 1..(i - 1) : prev[j].id # savedTicket.id
         IN [index \in DOMAIN prev |-> IF index = existingIndex THEN savedTicket ELSE prev[index]]
    ELSE Append(prev, savedTicket)

\* the updater of updateTicket
replaceById(prev, id, updatedTicket) ==
  [i \in DOMAIN prev |-> IF prev[i].id = id THEN updatedTicket ELSE prev[i]]

RECURSIVE removeById(_, _)
\* the updater of deleteTicket
removeById(prev, id) ==
  IF prev = <<>> THEN <<>>
  ELSE IF Head(prev).id # id THEN <<Head(prev)>> \o removeById(Tail(prev), id)
  ELSE removeById(Tail(prev), id)

\* useTicket after App's mount effect has called loadAllTickets
TicketHookMounted ==
  [ allTickets    |-> <<>>,
    currentTicket |-> None,
    isLoading     |-> TRUE,
    isSaving      |-> FALSE,
    error         |-> FALSE,
    pending       |-> <<>>,
    settled       |-> None ]

InitTickets ==
  /\ ticket = [id |-> 1]
  /\ directory \in DirectoryPool
  /\ hook = [inst \in HookInstances |-> HookMounted]
  /\ contributors = <<>>
  /\ onChangeCalls = 0
  /\ lastOp = "mounted"
  /\ phase = "tickets"
  /\ mergeInput = None
  /\ payload = None
  /\ endpoint = "none"
  /\ body = None
  /\ display = None
  /\ lookup = None
  /\ projectsHook = None
  /\ retry = RetryStarted
  /\ ticketHook = TicketHookMounted
  /\ currentView = "table"

\* loadAllTickets called, one load at a time
LoadAllTickets ==
  /\ retry.status # "running"
  /\ retry' = RetryStarted
  /\ ticketHook' = [ticketHook EXCEPT !.isLoading = TRUE, !.error = FALSE]
  /\ UNCHANGED << ticket, directory, hook, contributors, onChangeCalls, lastOp, phase, mergeInput,
                  payload, endpoint, body, display, lookup, projectsHook, currentView >>

\* one request of getAllTickets ends; retryRequest returns, waits or throws
GetAllTicketsAttempt ==
  \E o \in AttemptOutcomes, list \in ServerLists :
    /\ retry.status = "running"
    /\ IF o.kind # "error"
         THEN /\ retry' = [retry EXCEPT !.status = "returned", !.attempts = @ + 1]
              /\ ticketHook' = [ticketHook EXCEPT
                                  !.allTickets = IF o.kind = "data" THEN list ELSE <<>>,
                                  !.isLoading = FALSE]
       ELSE IF afterFailure(retry.i, interceptResponseError(o)) = "wait"
         THEN /\ retry' = [retry EXCEPT !.i = @ + 1,
                                        !.attempts = @ + 1,
                                        !.waited = Append(@, retry.delay),
                                        !.delay = @ * 2,
                                        !.codes = Append(@, o.code)]
              /\ UNCHANGED ticketHook
       ELSE /\ retry' = [retry EXCEPT !.status = "threw",
                                      !.attempts = @ + 1,
                                      !.codes = Append(@, o.code)]
            /\ ticketHook' = [ticketHook EXCEPT !.error = TRUE,
                                                !.allTickets = <<>>,
                                                !.isLoading = FALSE]
    /\ UNCHANGED << ticket, directory, hook, contributors, onChangeCalls, lastOp, phase, mergeInput,
                    payload, endpoint, body, display, lookup, projectsHook, currentView >>

\* saveTicket(ticket) called: validation, then the request
SaveTicketCall ==
  \E valid \in BOOLEAN :
    /\ Len(ticketHook.pending) < MaxInFlight
    /\ IF valid
         THEN /\ ticketHook' = [ticketHook EXCEPT !.isSaving = TRUE,
                                                  !.error = FALSE,
                                                  !.pending = Append(@, [op |-> "save", id |-> 0])]
         ELSE /\ ticketHook' = [ticketHook EXCEPT !.isSaving = FALSE, !.error = FALSE]
    /\ UNCHANGED << ticket, directory, hook, contributors, onChangeCalls, lastOp, phase, mergeInput,
                    payload, endpoint, body, display, lookup, projectsHook, retry, currentView >>

\* updateTicket(id, ticket) called
UpdateTicketCall ==
  \E id \in TicketIds :
    /\ Len(ticketHook.pending) < MaxInFlight
    /\ ticketHook' = [ticketHook EXCEPT !.isSaving = TRUE,
                                        !.error = FALSE,
                                        !.pending = Append(@, [op |-> "update", id |-> id])]
    /\ UNCHANGED << ticket, directory, hook, contributors, onChangeCalls, lastOp, phase, mergeInput,
                    payload, endpoint, body, display, lookup, projectsHook, retry, currentView >>

\* deleteTicket(id) called; it reads currentTicket of the render that made the call
DeleteTicketCall ==
  \E id \in TicketIds :
    /\ Len(ticketHook.pending) < MaxInFlight
    /\ ticketHook' = [ticketHook EXCEPT
                        !.isLoading = TRUE,
                        !.error = FALSE,
                        !.pending = Append(@, [op |-> "delete", id |-> id,
                                               wasCurrent |-> /\ ticketHook.currentTicket # None
                                                              /\ ticketHook.currentTicket.id = id])]
    /\ UNCHANGED << ticket, directory, hook, contributors, onChangeCalls, lastOp, phase, mergeInput,
                    payload, endpoint, body, display, lookup, projectsHook, retry, currentView >>

\* the hook state after request r has succeeded with the ticket the server sent
settleOk(h, r, sent) ==
  IF r.op = "save"
    THEN [h EXCEPT !.currentTicket = sent,
                   !.allTickets = replaceOrAppend(@, sent),
                   !.isSaving = FALSE]
  ELSE IF r.op = "update"
    THEN [h EXCEPT !.currentTicket = sent,
                   !.allTickets = replaceById(@, r.id, sent),
                   !.isSaving = FALSE]
  ELSE [h EXCEPT !.allTickets = removeById(@, r.id),
                 !.currentTicket = IF r.wasCurrent THEN None ELSE @,
                 !.isLoading = FALSE]

\* the hook state after request r has failed
settleFailed(h, r) ==
  IF r.op = "delete"
    THEN [h EXCEPT !.error = TRUE, !.isLoading = FALSE]
    ELSE [h EXCEPT !.error = TRUE, !.isSaving = FALSE]

\* a pending save, update or delete request settles
RequestSettle ==
  \E k \in DOMAIN ticketHook.pending, ok \in BOOLEAN, newId \in TicketIds :
    LET r    == ticketHook.pending[k]
        sent == Written(IF r.op = "save" THEN newId ELSE r.id)
        h    == [ticketHook EXCEPT !.pending = removeAt(@, k),
                                   !.settled = [op |-> r.op, ok |-> ok, ticket |-> sent]]
    IN /\ ticketHook' = IF ok THEN settleOk(h, r, sent) ELSE settleFailed(h, r)
       /\ UNCHANGED << ticket, directory, hook, contributors, onChangeCalls, lastOp, phase,
                       mergeInput, payload, endpoint, body, display, lookup, projectsHook,
                       retry, currentView >>

NextTickets ==
  \/ LoadAllTickets
  \/ GetAllTicketsAttempt
  \/ SaveTicketCall
  \/ UpdateTicketCall
  \/ DeleteTicketCall
  \/ RequestSettle

SpecTickets == InitTickets /\ [][NextTickets]_vars

(***************************************************************************)
(* App: the views around useTicket's save and update                        *)
(***************************************************************************)
Views == {"email", "table", "display", "edit"}

MaxSaves == 2

MaxLoads == 1

NewTicket == [id |-> NoId]

\* useTicket and App after the mount's loadAllTickets has filled the table
AppMounted ==
  [ currentTicket |-> None,
    isSaving      |-> FALSE,
    error         |-> FALSE,
    saves         |-> <<>>,
    loads         |-> <<>>,
    lastSave      |-> None ]

InitApp ==
  /\ ticket = [id |-> 1]
  /\ directory \in DirectoryPool
  /\ hook = [inst \in HookInstances |-> HookMounted]
  /\ contributors = <<>>
  /\ onChangeCalls = 0
  /\ lastOp = "mounted"
  /\ phase = "app"
  /\ mergeInput = None
  /\ payload = None
  /\ endpoint = "none"
  /\ body = None
  /\ display = None
  /\ lookup = None
  /\ projectsHook = None
  /\ retry = None
  /\ ticketHook = AppMounted
  /\ currentView = "table"

\* resetSavingState as it leaves the isSaving flag
resetSavingState(h) == [h EXCEPT !.isSaving = FALSE]

clearError(h) == [h EXCEPT !.error = FALSE]

\* the table's edit button of a row
handleEditFromTable ==
  \E id \in TicketIds :
    /\ currentView = "table"
    /\ ticketHook' = [resetSavingState(clearError(ticketHook)) EXCEPT !.currentTicket = [id |-> id]]
    /\ currentView' = "edit"
    /\ UNCHANGED << ticket, directory, hook, contributors, onChangeCalls, lastOp, phase, mergeInput,
                    payload, endpoint, body, display, lookup, projectsHook, retry >>

\* the table's view button of a row
handleViewTicket ==
  \E id \in TicketIds :
    /\ currentView = "table"
    /\ ticketHook' = [clearError(ticketHook) EXCEPT !.currentTicket = [id |-> id]]
    /\ currentView' = "display"
    /\ UNCHANGED << ticket, directory, hook, contributors, onChangeCalls, lastOp, phase, mergeInput,
                    payload, endpoint, body, display, lookup, projectsHook, retry >>

\* the display's edit button
handleEditTicket ==
  /\ currentView = "display"
  /\ ticketHook.currentTicket # None
  /\ ticketHook' = resetSavingState(clearError(ticketHook))
  /\ currentView' = "edit"
  /\ UNCHANGED << ticket, directory, hook, contributors, onChangeCalls, lastOp, phase, mergeInput,
                  payload, endpoint, body, display, lookup, projectsHook, retry >>

\* the back button of the display, or of the editor while it is enabled
handleBackToTable ==
  /\ \/ currentView = "display" /\ ticketHook.currentTicket # None
     \/ currentView = "edit" /\ ~ticketHook.isSaving
  /\ currentView' = "table"
  /\ UNCHANGED << ticket, directory, hook, contributors, onChangeCalls, lastOp, phase, mergeInput,
                  payload, endpoint, body, display, lookup, projectsHook, retry, ticketHook >>

\* the editor's cancel button while it is enabled
handleCancelEdit ==
  /\ currentView = "edit"
  /\ ~ticketHook.isSaving
  /\ ticketHook' = resetSavingState(ticketHook)
  /\ currentView' = IF ticketHook.currentTicket # None /\ ticketHook.currentTicket.id # NoId
                      THEN "display" ELSE "email"
  /\ UNCHANGED << ticket, directory, hook, contributors, onChangeCalls, lastOp, phase, mergeInput,
                  payload, endpoint, body, display, lookup, projectsHook, retry >>

\* the navigation's Process Email button
handleBackToEmail ==
  /\ currentView # "email"
  /\ ticketHook' = clearError(ticketHook)
  /\ currentView' = "email"
  /\ UNCHANGED << ticket, directory, hook, contributors, onChangeCalls, lastOp, phase, mergeInput,
                  payload, endpoint, body, display, lookup, projectsHook, retry >>

\* handleProcessEmail with processEmailText run to its end
handleProcessEmail ==
  \E ok \in BOOLEAN :
    /\ currentView = "email"
    /\ ticketHook' = [ticketHook EXCEPT !.error = ~ok,
                                        !.currentTicket = IF ok THEN NewTicket ELSE None]
    /\ currentView' = IF ok THEN "display" ELSE currentView
    /\ UNCHANGED << ticket, directory, hook, contributors, onChangeCalls, lastOp, phase, mergeInput,
                    payload, endpoint, body, display, lookup, projectsHook, retry >>

\* loadAllTickets started by the navigation's All Tickets button
handleViewAllTickets ==
  /\ Len(ticketHook.loads) < MaxLoads
  /\ ticketHook' = [ticketHook EXCEPT !.error = FALSE,
                                      !.loads = Append(@, [stage |-> "load", thenTable |-> TRUE])]
  /\ UNCHANGED << ticket, directory, hook, contributors, onChangeCalls, lastOp, phase, mergeInput,
                  payload, endpoint, body, display, lookup, projectsHook, retry, currentView >>

\* deleteTicket started by the table's delete button
handleDeleteTicket ==
  /\ currentView = "table"
  /\ Len(ticketHook.loads) < MaxLoads
  /\ ticketHook' = [ticketHook EXCEPT !.error = FALSE,
                                      !.loads = Append(@, [stage |-> "delete", thenTable |-> FALSE])]
  /\ UNCHANGED << ticket, directory, hook, contributors, onChangeCalls, lastOp, phase, mergeInput,
                  payload, endpoint, body, display, lookup, projectsHook, retry, currentView >>

\* a delete settles and handleDeleteTicket goes on to loadAllTickets; a load
\* settles and handleViewAllTickets shows the table
LoadOrDeleteSettle ==
  \E k \in DOMAIN ticketHook.loads, ok \in BOOLEAN :
    LET r == ticketHook.loads[k]
    IN /\ IF r.stage = "delete"
            THEN /\ ticketHook' = [ticketHook EXCEPT
                                     !.error = FALSE,
                                     !.loads = [@ EXCEPT ![k] = [r EXCEPT !.stage = "load"]]]
                 /\ UNCHANGED currentView
            ELSE /\ ticketHook' = [ticketHook EXCEPT !.error = IF ok THEN @ ELSE TRUE,
                                                     !.loads = removeAt(@, k)]
                 /\ currentView' = IF r.thenTable THEN "table" ELSE currentView
       /\ UNCHANGED << ticket, directory, hook, contributors, onChangeCalls, lastOp, phase,
                       mergeInput, payload, endpoint, body, display, lookup, projectsHook,
                       retry >>

\* handleSaveTicket after its await: error is the value of the render that
\* created the handler
viewAfterSave(view, staleError) == IF ~staleError THEN "display" ELSE view

\* the editor's submit button while it is enabled: handleFormSubmit, then
\* handleSaveTicket up to its await
SubmitEditor ==
  /\ currentView = "edit"
  /\ ~ticketHook.isSaving
  /\ ticketHook.currentTicket # None
  /\ Len(ticketHook.saves) < MaxSaves
  /\ ticketHook' = [ticketHook EXCEPT
                      !.isSaving = TRUE,
                      !.error = FALSE,
                      !.saves = Append(@, [op |-> IF ticketHook.currentTicket.id # NoId
                                                    THEN "update" ELSE "save",
                                           staleError |-> ticketHook.error])]
  /\ UNCHANGED << ticket, directory, hook, contributors, onChangeCalls, lastOp, phase, mergeInput,
                  payload, endpoint, body, display, lookup, projectsHook, retry, currentView >>

\* the awaited saveTicket or updateTicket settles and handleSaveTicket ends
SaveSettle ==
  \E k \in DOMAIN ticketHook.saves, ok \in BOOLEAN, newId \in TicketIds :
    LET r == ticketHook.saves[k]
    IN /\ ticketHook' = [ticketHook EXCEPT
                           !.saves = removeAt(@, k),
                           !.isSaving = FALSE,
                           !.error = IF ok THEN @ ELSE TRUE,
                           !.currentTicket = IF ~ok THEN @
                                             ELSE IF r.op = "save" THEN [id |-> newId]
                                             ELSE IF @ = None THEN [id |-> newId] ELSE @,
                           !.lastSave = [ok |-> ok, staleError |-> r.staleError]]
       /\ currentView' = viewAfterSave(currentView, r.staleError)
       /\ UNCHANGED << ticket, directory, hook, contributors, onChangeCalls, lastOp, phase,
                       mergeInput, payload, endpoint, body, display, lookup, projectsHook,
                       retry >>

NextApp ==
  \/ handleEditFromTable
  \/ handleViewTicket
  \/ handleEditTicket
  \/ handleBackToTable
  \/ handleCancelEdit
  \/ handleBackToEmail
  \/ handleProcessEmail
  \/ handleViewAllTickets
  \/ handleDeleteTicket
  \/ LoadOrDeleteSettle
  \/ SubmitEditor
  \/ SaveSettle

SpecApp == InitApp /\ [][NextApp]_vars

(***************************************************************************)
(* Properties                                                              *)
(***************************************************************************)
Submitted == phase \in {"submitted", "sent"}

\* the list that the last submit merged
MergedList == mergeInput.contributors

\* C1: whenever the submit accepted at least one contributor, the legacy
\* singular fields of the payload mirror accepted entry 0 only: contributor
\* is entry 0, contributorName is its name, contributorId is its id when it
\* is a directory entry and is absent when it is free text.
C1_LegacyMirrorsFirst ==
  (Submitted /\ Len(payload.contributors) > 0) =>
    LET first == payload.contributors[1]
    IN /\ payload.contributor = first
       /\ payload.contributorName = first.name
       /\ first.kind = "object" =>
            (Has(payload, "contributorId") /\ payload.contributorId = first.id)
       /\ first.kind = "string" => ~Has(payload, "contributorId")

\* C2: the edit-json body never has a contributors or a contributor key, and
\* for contributors [{id:7,name:"Jane"},{id:9,name:"Amit"}] it carries
\* contributorIdsList = [7,9] and contributorIds = "7,9".
C2_UpdateBodyShape ==
  endpoint = "edit-json" =>
    /\ ~Has(body, "contributors")
    /\ ~Has(body, "contributor")
    /\ (Has(ticket, "contributors")
          /\ ticket.contributors = <<ObjectRef(7, Jane), ObjectRef(9, Amit)>>) =>
         /\ Has(body, "contributorIdsList") /\ body.contributorIdsList = <<7, 9>>
         /\ Has(body, "contributorIds")
         /\ body.contributorIds = StringValue(<<"7", ",", "9">>)

NonEmptyString(t, k) == Has(t, k) /\ t[k].type = "string" /\ t[k].str # <<>>

\* C3: getContributorDisplayValue takes the first rule that applies: a
\* non-empty string contributorNames verbatim, else a non-empty contributors
\* array (whatever contributor holds), else the legacy contributor's display
\* name, else the empty string.
C3_DisplayPrecedence ==
  lastOp = "displayed" =>
    /\ NonEmptyString(ticket, "contributorNames") =>
         display = ticket.contributorNames.str
    /\ (~NonEmptyString(ticket, "contributorNames")
          /\ Has(ticket, "contributors") /\ ticket.contributors # <<>>) =>
         display = join(SelectSeq([i \in DOMAIN ticket.contributors |->
                                     trim(ticket.contributors[i].name)],
                                  LAMBDA n : n # <<>>),
                        <<",", " ">>)
    /\ (~NonEmptyString(ticket, "contributorNames")
          /\ ~(Has(ticket, "contributors") /\ ticket.contributors # <<>>)) =>
         display = IF Has(ticket, "contributor") THEN trim(ticket.contributor.name) ELSE <<>>
    /\ ticket = AllSet => display = AB
    /\ ticket = LegacyOnly => display = Bob

C3_Witness ==
  lastOp = "displayed" /\ ticket = AllSet /\ display = AB

\* the entries of the directory caches that the last submit could read
CachedEntries ==
  { mergeInput.hook.activeContributors[i] : i \in DOMAIN mergeInput.hook.activeContributors }
    \cup { mergeInput.hook.contributors[i] : i \in DOMAIN mergeInput.hook.contributors }

SameName(a, b) == toLowerCase(a) = toLowerCase(b)

\* every entry is a string or an object that carries an id
AllUsable(list) == \A i \in DOMAIN list : list[i].kind = "string" \/ HasId(list[i])

\* the submit took the branch that merges a non-empty contributors list
Merged == Submitted /\ MergedList # <<>>

RECURSIVE IdsOf(_)
\* the ids of the object-form entries of a list, in list order
IdsOf(list) ==
  IF list = <<>> THEN <<>>
  ELSE IF Head(list).kind = "object" THEN <<Head(list).id>> \o IdsOf(Tail(list))
  ELSE IdsOf(Tail(list))

DirectoryEntries == { directory[i] : i \in DOMAIN directory }

\* C5 as stated: after the submit, every free-text reference whose name equals,
\* ignoring case, the name of a directory entry - active or inactive - is
\* carried as that entry with its id (here even with the editor's directory
\* fetch completed before the submit).
C5_EveryDirectoryMatchLinked ==
  (Merged /\ AllUsable(MergedList) /\ mergeInput.hook.activeFetch = "done") =>
    \A i \in DOMAIN MergedList :
      \A e \in DirectoryEntries :
        (MergedList[i].kind = "string" /\ SameName(e.name, MergedList[i].name)) =>
          (payload.contributors[i].kind = "object" /\ payload.contributors[i].id = e.id)

\* C5 amended: a free-text reference is carried as a directory entry with its
\* id exactly when its name equals, ignoring case, the name of an entry held
\* in the editor's directory caches when the submit runs; the editor loads the
\* active-only list, so a name that matches only an inactive entry, or any
\* name while the cache is empty, stays free text.
C5_CachedMatchLinked ==
  (Merged /\ AllUsable(MergedList)) =>
    /\ \A i \in DOMAIN MergedList :
         MergedList[i].kind = "string" =>
           /\ payload.contributors[i].kind = "object" <=>
                (\E e \in CachedEntries : SameName(e.name, MergedList[i].name))
           /\ payload.contributors[i].kind = "object" =>
                \E e \in CachedEntries :
                  /\ SameName(e.name, MergedList[i].name)
                  /\ payload.contributors[i].id = e.id
           /\ payload.contributors[i].kind = "string" =>
                payload.contributors[i].name = MergedList[i].name
    /\ \A i \in DOMAIN MergedList :
         (/\ MergedList[i].kind = "string"
          /\ \A e \in DirectoryEntries : SameName(e.name, MergedList[i].name) => ~e.active)
           => payload.contributors[i] = MergedList[i]

C5_Witness ==
  /\ Merged
  /\ mergeInput.hook.activeFetch = "done"
  /\ MergedList = <<StringRef(amit), StringRef(bob)>>
  /\ payload.contributors = <<StringRef(amit), ObjectRef(3, Bob)>>

\* C6: a list of at most 10 entries never grows beyond 10 through
\* addContributor and removeContributor, and an addContributor call on a list
\* of 10 or more entries leaves the list as it is, calls onChange not at all
\* and raises no error.
C6_AtMostTenContributors ==
  [][ /\ Len(contributors) <= 10 => Len(contributors') <= 10
      /\ ((AddCustomContributor \/ AddSelectedContributor) /\ Len(contributors) >= 10) =>
           /\ contributors' = contributors
           /\ onChangeCalls' = onChangeCalls
           /\ lastOp' = "ignoredFull"
           /\ hook' = hook
    ]_vars

C6_Witness ==
  /\ lastOp = "ignoredFull"
  /\ Len(contributors) = 10
  /\ onChangeCalls = 1

\* two references are the same contributor: equal ids when both carry one, or
\* names equal ignoring case
SameContributor(a, b) ==
  \/ HasId(a) /\ HasId(b) /\ a.id = b.id
  \/ SameName(a.name, b.name)

NoDuplicates(list) ==
  \A i, j \in DOMAIN list : i < j => ~SameContributor(list[i], list[j])

\* C7: addContributor never appends a reference that is the same contributor
\* as one already in the list, so a list without duplicates stays without
\* duplicates under additions and removals.
C7_NoDuplicateAdded ==
  [][ /\ Len(contributors') = Len(contributors) + 1 =>
           /\ SubSeq(contributors', 1, Len(contributors)) = contributors
           /\ \A i \in DOMAIN contributors :
                ~SameContributor(contributors[i], contributors'[Len(contributors')])
      /\ NoDuplicates(contributors) => NoDuplicates(contributors')
    ]_vars

C7_Witness ==
  /\ lastOp = "ignoredDuplicate"
  /\ contributors = <<ObjectRef(7, JSmith)>>
  /\ onChangeCalls = 0

\* C8: a submitted list that contains an entry duplicating an earlier one
\* (same id, or same name ignoring case) loses the later duplicate: objects
\* is shorter than the list and holds no two entries of the same contributor.
C8_MergeDropsDuplicates ==
  (Merged /\ ~NoDuplicates(MergedList)) =>
    /\ Len(payload.contributors) < Len(MergedList)
    /\ NoDuplicates(payload.contributors)

\* a submit was attempted on the list now in the form
SubmitAttempted == lastOp \in {"invalid", "submitFailed", "submitted", "sent"}

\* C9 as stated: submitting a list of 11 pairwise distinct entries merges the
\* first 10 and drops the 11th.
C9_EleventhDropped ==
  (SubmitAttempted /\ Len(contributors) = 11 /\ NoDuplicates(contributors)) =>
    /\ payload # None
    /\ Len(payload.contributors) = 10

\* C9 amended: a list of more than 10 entries never reaches the merge: the
\* schema rejects the submit, nothing is handed to onSave and the list stays
\* in the form; the merge itself has no cap, and every payload it builds
\* describes at most 10 contributors in contributors and contributorIds.
C9_OverlongListRejected ==
  /\ payload # None =>
       /\ Len(payload.contributors) <= 10
       /\ Len(payload.contributorIds.arr) <= 10
       /\ Len(MergedList) <= 10
  /\ (SubmitAttempted /\ Len(contributors) > 10) =>
       /\ lastOp = "invalid"
       /\ phase = "editing"
       /\ payload = None

C9_Witness ==
  /\ lastOp = "invalid"
  /\ contributors = DistinctRefs(11)
  /\ payload = None

HasStringForm(c) == c.kind = "string" \/ (c.kind = "object" /\ (c.id # NoId \/ c.name # <<>>))

\* an object entry that has a name and no id
NameOnly(c) == c.kind = "object" /\ c.id = NoId /\ c.name # <<>>

RECURSIVE Occurrences(_, _)
\* how often the value occurs in the sequence
Occurrences(list, v) ==
  IF list = <<>> THEN 0
  ELSE (IF Head(list) = v THEN 1 ELSE 0) + Occurrences(Tail(list), v)

\* C11: the merge keeps every entry that has a string form: an object entry
\* with a name and no id is carried as the free-text reference of that name,
\* in the payload's contributors and in its names, and only entries without
\* any string form are dropped.
C11_NamedMalformedKept ==
  (Submitted /\ MergedList # <<>>) =>
    /\ Len(payload.contributors) =
         Cardinality({ i \in DOMAIN MergedList : HasStringForm(MergedList[i]) })
    /\ \A i \in DOMAIN MergedList :
         NameOnly(MergedList[i]) =>
           /\ Occurrences(payload.contributors, StringRef(MergedList[i].name)) > 0
           /\ payload.contributorNames.str =
                join([j \in DOMAIN payload.contributors |-> payload.contributors[j].name],
                     <<",", " ">>)

\* a resolve call was made and returned
Resolved == lookup # None /\ lookup.outcome # "threw"

\* the entries with a name that the caches held when the resolve call ran
HeldEntries ==
  { e \in { lookup.hook.activeContributors[i] : i \in DOMAIN lookup.hook.activeContributors }
            \cup { lookup.hook.contributors[i] : i \in DOMAIN lookup.hook.contributors } :
      Has(e, "name") }

\* C12: a resolve call finds an entry whenever a cached entry's name equals
\* the text ignoring case, the entry found has that name ignoring case (whole
\* name, never the email), and every other casing of the text resolves to the
\* same entry.
C12_SameEntryForEveryCasing ==
  Resolved =>
    /\ (\E e \in HeldEntries : SameName(e.name, lookup.name)) => lookup.outcome = "found"
    /\ lookup.outcome = "found" => SameName(lookup.entry[1].name, lookup.name)
    /\ \A m \in LookupNames :
         SameName(m, lookup.name) => resolveName(lookup.hook, m).entry = lookup.entry

C12_Witness ==
  /\ Resolved
  /\ directory = DirectoryCases
  /\ lookup.name = janesmith
  /\ lookup.entry = <<WithEmail(DirectoryEntry(7, JaneSmith, TRUE), JaneMail)>>

\* the first entry of the list whose name equals the text ignoring case
FirstMatch(list, n) ==
  LET idx == { i \in DOMAIN list : Has(list[i], "name") /\ SameName(list[i].name, n) }
  IN IF idx = {} THEN <<>>
     ELSE << list[CHOOSE i \in idx : \A j \in idx : i <= j] >>

\* C13: a resolve call returns the first entry of the active-only cache whose
\* name equals the text ignoring case, else the first such entry of the full
\* cache, and not-found exactly when neither cache holds such an entry.
C13_ActiveFirstThenFull ==
  Resolved =>
    LET inActive == FirstMatch(lookup.hook.activeContributors, lookup.name)
        inFull   == FirstMatch(lookup.hook.contributors, lookup.name)
    IN /\ inActive # <<>> => lookup.entry = inActive
       /\ inActive = <<>> => lookup.entry = inFull
       /\ lookup.outcome = "notFound" <=> (inActive = <<>> /\ inFull = <<>>)

C13_Witness ==
  /\ Resolved
  /\ directory = DirectoryCases
  /\ lookup.hook.activeContributors # <<>>
  /\ lookup.name = amit
  /\ lookup.entry = <<DirectoryEntry(9, Amit, FALSE)>>

\* C14: a resolve call with an empty or whitespace-only text returns
\* not-found, whatever the caches hold.
C14_BlankNameNotFound ==
  (lookup # None /\ trim(lookup.name) = <<>>) => lookup.outcome = "notFound"

\* the names of the entries of a list that have one, joined with ", "
JoinedNames(list) ==
  join(SelectSeq([i \in DOMAIN list |-> list[i].name], NonEmptyName), <<",", " ">>)

\* C15: the display value computed from the create body of a submitted list
\* is the names of the list's entries joined with ", " in list order (a
\* resolved name in the directory's spelling).
C15_RoundTripKeepsNames ==
  (phase = "displayed" /\ MergedList # <<>>) =>
    SameName(display, JoinedNames(MergedList))

\* the ids of the entries of a list that carry one, in list order
DirectoryIds(list) ==
  LET withId == SelectSeq(list, HasId)
  IN [i \in DOMAIN withId |-> withId[i].id]

\* C16: every create body with a non-empty contributors array carries
\* contributorNames as the string of those contributors' names joined with
\* ", " and contributorIds as the array of their directory ids.
C16_CreateBodyCarriesNamesAndIds ==
  (endpoint = "tickets" /\ Has(body, "contributors") /\ body.contributors # <<>>) =>
    /\ Has(body, "contributorNames")
    /\ body.contributorNames = StringValue(JoinedNames(body.contributors))
    /\ Has(body, "contributorIds")
    /\ body.contributorIds = ArrayValue(DirectoryIds(body.contributors))

\* C17: a submit with an empty contributors list and a non-empty legacy
\* contributor string that equals no directory entry's name hands on that
\* string unchanged as contributor and as contributorName, without a
\* contributorId key.
C17_UnmatchedLegacyKept ==
  (/\ Submitted
   /\ MergedList = <<>>
   /\ formData.contributor # <<>>
   /\ \A e \in DirectoryEntries : ~SameName(e.name, formData.contributor)) =>
    /\ payload.contributor = StringRef(formData.contributor)
    /\ payload.contributorName = formData.contributor
    /\ ~Has(payload, "contributorId")

C17_Witness ==
  /\ Submitted
  /\ ticket = [id |-> 1, contributor |-> StringRef(NewPerson)]
  /\ MergedList = <<>>
  /\ payload.contributor = StringRef(NewPerson)
  /\ payload.contributorName = NewPerson

\* the references of the opened ticket that carry a directory id
LinkedRefs ==
  IF Has(ticket, "contributors") /\ ticket.contributors # <<>>
    THEN { ticket.contributors[i] : i \in { j \in DOMAIN ticket.contributors :
                                              HasId(ticket.contributors[j]) } }
  ELSE IF Has(ticket, "contributor") /\ HasId(ticket.contributor)
    THEN { ticket.contributor }
  ELSE {}

\* C18: a reference that carries a directory id keeps it: when the user
\* changed nothing, every such reference of the opened ticket is in the
\* submit's payload as an object with that id, whatever the directory fetch
\* has done by then, and the update body built from the payload names the id.
C18_LinkedStaysLinked ==
  (Submitted /\ onChangeCalls = 0) =>
    \A r \in LinkedRefs :
      /\ \E j \in DOMAIN payload.contributors :
           /\ payload.contributors[j].kind = "object"
           /\ payload.contributors[j].id = r.id
      /\ endpoint = "edit-json" =>
           \/ Has(body, "contributorId") /\ body.contributorId = r.id
           \/ /\ Has(body, "contributorIdsList")
              /\ \E k \in DOMAIN body.contributorIdsList : body.contributorIdsList[k] = r.id

\* C19: name resolution never raises: every resolve call returns an entry or
\* not-found, also when a cached directory entry has no name.
C19_ResolutionNeverRaises ==
  lookup # None => lookup.outcome \in {"found", "notFound"}

\* every entry of both caches has a name
AllNamed(h) ==
  /\ \A i \in DOMAIN h.activeContributors : Has(h.activeContributors[i], "name")
  /\ \A i \in DOMAIN h.contributors : Has(h.contributors[i], "name")

ShownFromArray ==
  /\ lastOp = "displayed"
  /\ phase = "service"
  /\ ~NonEmptyString(ticket, "contributorNames")
  /\ Has(ticket, "contributors")
  /\ ticket.contributors # <<>>

\* C21 as stated: the display value has one name per array entry, in array
\* order, joined with ", ", a string entry as it is written and an object
\* entry by its name field.
C21_OneNamePerEntry ==
  ShownFromArray =>
    display = join([i \in DOMAIN ticket.contributors |-> ticket.contributors[i].name],
                   <<",", " ">>)

RECURSIVE ShownNames(_)
\* the trimmed names of the entries whose name is not blank, in list order
ShownNames(list) ==
  IF list = <<>> THEN <<>>
  ELSE IF trim(Head(list).name) = <<>> THEN ShownNames(Tail(list))
  ELSE <<trim(Head(list).name)>> \o ShownNames(Tail(list))

\* C21 amended: the display value is the trimmed names of the entries whose
\* name is not blank, in array order, joined with ", "; an entry with an
\* empty or blank name contributes nothing, and only a list without blank or
\* padded names is shown with one verbatim name per entry.
C21_TrimmedNonBlankNames ==
  ShownFromArray =>
    LET list == ticket.contributors
    IN /\ display = join(ShownNames(list), <<",", " ">>)
       /\ Len(ShownNames(list)) =
            Cardinality({ i \in DOMAIN list : trim(list[i].name) # <<>> })
       /\ (\A i \in DOMAIN list : list[i].name # <<>> /\ trim(list[i].name) = list[i].name) =>
            display = join([i \in DOMAIN list |-> list[i].name], <<",", " ">>)

C21_Witness ==
  /\ ShownFromArray
  /\ ticket.contributors = <<StringRef(NameD), ObjectRef(5, <<>>), StringRef(NewPerson)>>
  /\ display = NameD \o <<",", " ">> \o NewPerson

ProjectsSettled == lastOp = "projectsSettled"

\* the sequence is strictly increasing in the order of sort
StrictlySorted(list) ==
  \A i, j \in DOMAIN list : i < j => StringLess(list[i], list[j])

\* C22 as stated: the list is the /api/projects answer when that is an array,
\* else the sorted distinct non-blank project names of the tickets, else the
\* constants; after a fetch has settled isLoading is false and
\* isUsingFallback is true exactly when the list is the constants.
C22_ThreeStepFallback ==
  ProjectsSettled =>
    LET pa == projectsHook.answers.projects
        ta == projectsHook.answers.tickets
    IN /\ pa.kind = "array" => projectsHook.projects = pa.items
       /\ (pa.kind # "array" /\ ta.kind = "ok") =>
            /\ StrictlySorted(projectsHook.projects)
            /\ { projectsHook.projects[i] : i \in DOMAIN projectsHook.projects } =
                 { ta.projects[i] : i \in { j \in DOMAIN ta.projects : NonBlank(ta.projects[j]) } }
       /\ (pa.kind # "array" /\ ta.kind # "ok") =>
            projectsHook.projects = FALLBACK_PROJECT_NAMES
       /\ ~projectsHook.isLoading
       /\ projectsHook.isUsingFallback <=> projectsHook.projects = FALLBACK_PROJECT_NAMES

RECURSIVE NonBlankItems(_)
\* the items of an answer that are not blank, in the answer's order
NonBlankItems(items) ==
  IF items = <<>> THEN <<>>
  ELSE IF NonBlank(Head(items)) THEN <<Head(items)>> \o NonBlankItems(Tail(items))
  ELSE NonBlankItems(Tail(items))

\* C22 amended: the list is the non-blank items of the /api/projects answer
\* when that is an array, else the sorted distinct non-blank project names of
\* the tickets, else the constants; after a fetch has settled isLoading is
\* false and isUsingFallback is true exactly when the list was taken from the
\* constants because both requests failed.
C22_FilteredThreeStepFallback ==
  ProjectsSettled =>
    LET pa == projectsHook.answers.projects
        ta == projectsHook.answers.tickets
    IN /\ pa.kind = "array" =>
            (projectsHook.projects = NonBlankItems(pa.items) /\ projectsHook.from = "endpoint")
       /\ (pa.kind # "array" /\ ta.kind = "ok") =>
            /\ projectsHook.from = "tickets"
            /\ StrictlySorted(projectsHook.projects)
            /\ { projectsHook.projects[i] : i \in DOMAIN projectsHook.projects } =
                 { ta.projects[i] : i \in { j \in DOMAIN ta.projects : NonBlank(ta.projects[j]) } }
       /\ (pa.kind # "array" /\ ta.kind # "ok") =>
            (projectsHook.projects = FALLBACK_PROJECT_NAMES /\ projectsHook.from = "constants")
       /\ ~projectsHook.isLoading
       /\ projectsHook.isUsingFallback <=> projectsHook.from = "constants"

C22_Witness ==
  /\ ProjectsSettled
  /\ projectsHook.answers.projects.kind = "error"
  /\ projectsHook.projects = << <<"A">>, <<"A", "b">>, <<"B">>, <<"b">> >>
  /\ ~projectsHook.isUsingFallback

\* the editor has been opened on the ticket and nothing was edited yet
JustOpened == phase = "editing" /\ lastOp = "mounted" /\ onChangeCalls = 0

\* C23: opened on a ticket that has a legacy contributor and no entries in
\* contributors, the editor's contributors list is that contributor alone.
C23_LegacyShownAsSingleEntry ==
  (/\ JustOpened
   /\ Has(ticket, "contributor") /\ Truthy(ticket.contributor)
   /\ (~Has(ticket, "contributors") \/ ticket.contributors = <<>>)) =>
    contributors = <<ticket.contributor>>

C25_SavingWhileInFlight ==
  (phase = "app" /\ ticketHook.saves # <<>>) =>
    /\ ticketHook.isSaving
    /\ ~ENABLED SubmitEditor

\* C26: handleSaveTicket moves the view to 'display' exactly when the save
\* or update it awaited succeeded: the view stays where it was after a
\* failure and is 'display' after a success, whatever error was set before.
C26_DisplayIffSaved ==
  [][(phase = "app" /\ Len(ticketHook'.saves) < Len(ticketHook.saves)) =>
       IF ticketHook'.lastSave.ok
         THEN currentView' = "display"
         ELSE currentView' = currentView]_vars

\* C27: in useContributors isLoading is true in every state in which at least
\* one of the two directory fetches is still in flight.
C27_LoadingWhileFetching ==
  phase = "hook" =>
    \A inst \in HookInstances :
      (hook[inst].activeFetch = "pending" \/ hook[inst].allFetch = "pending")
        => hook[inst].isLoading

\* C28: when every contributor of a ticket that had one has been removed in
\* the editor, the submitted payload assigns nobody: contributors is empty
\* and contributor, contributorName and contributorNames name no one.
C28_RemovedAllAssignsNobody ==
  (/\ Submitted
   /\ Len(createDefaultValues(ticket).contributors) > 0
   /\ MergedList = <<>>) =>
    /\ payload.contributors = <<>>
    /\ getContributorName(payload.contributor) = <<>>
    /\ payload.contributorName = <<>>
    /\ payload.contributorNames = StringValue(<<>>)

\* C30: the contributor text that TicketsTable uses for searching, sorting
\* and Excel export is getContributorDisplayValue(ticket), and computing it
\* never fails, whether contributorNames is a string, an array or absent.
C30_TableTextIsDisplayValue ==
  lastOp = "tableText" =>
    LET shown == getContributorDisplayValue(ticket)
    IN /\ display.search = [kind |-> "ok", text |-> toLowerCase(shown)]
       /\ display.sort = StringValue(toLowerCase(shown))
       /\ display.export = StringValue(shown)

\* no two entries of the list have the same ticket id
DistinctIds(list) ==
  \A i, j \in DOMAIN list : list[i].id = list[j].id => i = j

HasTicket(list, id) == \E i \in DOMAIN list : list[i].id = id

\* the step settles a pending save, update or delete
Settles == phase = "tickets" /\ Len(ticketHook'.pending) < Len(ticketHook.pending)

\* C29: allTickets holds at most one entry per ticket id; a successful
\* saveTicket replaces the entry with the saved id in place or appends it
\* when absent, a successful updateTicket replaces the entry with the given
\* id and keeps the length, a successful deleteTicket removes it, and a
\* failed call leaves allTickets unchanged.
C29_OneEntryPerId ==
  /\ [](phase = "tickets" => DistinctIds(ticketHook.allTickets))
  /\ [][Settles =>
          LET prev == ticketHook.allTickets
              now  == ticketHook'.allTickets
              done == ticketHook'.settled
              id   == done.ticket.id
          IN IF ~done.ok THEN now = prev
             ELSE IF done.op = "delete"
               THEN /\ ~HasTicket(now, id)
                    /\ Len(now) = Len(prev) - (IF HasTicket(prev, id) THEN 1 ELSE 0)
                    /\ \A i \in DOMAIN now :
                         now[i] = prev[IF HasTicket(SubSeq(prev, 1, i), id) THEN i + 1 ELSE i]
             ELSE IF done.op = "update" \/ HasTicket(prev, id)
               THEN /\ Len(now) = Len(prev)
                    /\ \A i \in DOMAIN prev :
                         now[i] = IF prev[i].id = id THEN done.ticket ELSE prev[i]
             ELSE now = Append(prev, done.ticket)]_vars

\* a save has replaced the entry of ticket 1 in place, next to ticket 2
C29_Witness ==
  /\ phase = "tickets"
  /\ ticketHook.settled = [op |-> "save", ok |-> TRUE, ticket |-> Written(1)]
  /\ ticketHook.allTickets = <<Written(1), Stored(2)>>

====
